---- MODULE Spec2Model ----
(***************************************************************************)
(* s3copy: the migration run (src/main.rs) and the purge run               *)
(* (src/bin/delete.rs) as state machines over an object-storage gateway.   *)
(*                                                                         *)
(* One action per awaited gateway call of main / multipart_upload, one     *)
(* action per completion of a spawned upload_part task.  A call that the   *)
(* code unwraps may fail; the failure panics main, which ends the process  *)
(* (pc = "panicked").  Sizes are scaled: CHUNK_SIZE bytes stand for the    *)
(* 5 MiB of the source, and every object size is stated relative to it.    *)
(***************************************************************************)
EXTENDS Integers, Sequences, FiniteSets, TLC

\* ------------------------------------------------------------------ bounds

\* The largest number of bytes one read of the source body stream delivers.
MaxRead == 2

\* The most listing pages the source account cuts one bucket's listing into.
MaxPages == 3

\* ------------------------------------------------------- program constants

\* const CHUNK_SIZE (5 * 1024 * 1024 in the source, scaled to 2 bytes here).
CHUNK_SIZE == 2

\* ------------------------------------------------------------ the accounts

\* Option<T>: None is the empty tuple, Some(x) the tuple of x.
None == << >>
Some(x) == << x >>
Unwrap(o) == o[1]

\* NEW_BUCKET_SUFFIX is not set.
Unset == "Unset"

\* The empty string, for a call that names no bucket or no key.
NoName == << >>

\* Object keys are strings, modelled as tuples of characters so that one key
\* can be a proper prefix of another.
KeyA == <<1>>
KeyAB == <<1, 2>>
KeyC == <<3>>
Keys == {KeyA, KeyAB, KeyC}

\* The source account: bucket "a" holds one object just below the threshold,
\* one exactly at it and one of two chunks and a byte; bucket "b" holds one
\* object just above the threshold; bucket "c" is empty.
SourceBuckets == <<"a", "b", "c">>

SourceObjects(bucket) ==
    IF bucket = "a"
    THEN << [key |-> KeyA, size |-> CHUNK_SIZE - 1],
            [key |-> KeyAB, size |-> CHUNK_SIZE],
            [key |-> KeyC, size |-> 2 * CHUNK_SIZE + 1] >>
    ELSE IF bucket = "b"
    THEN << [key |-> KeyA, size |-> CHUNK_SIZE + 1] >>
    ELSE << >>

\* The bytes of a source object: byte i of the stream is i, so that a lost,
\* repeated or displaced byte shows.
Content(size) == [i \in 1..size |-> i]

SourceSize(bucket, key) ==
    LET objs == SourceObjects(bucket)
        i == CHOOSE j \in 1..Len(objs) : objs[j].key = key
    IN objs[i].size

\* The value of NEW_BUCKET_SUFFIX when it is set.
Suffix == "-new"

\* A bucket name is the tuple of the strings concatenated to form it.
DestNames ==
    {<<SourceBuckets[i]>> : i \in 1..Len(SourceBuckets)}
        \cup {<<SourceBuckets[i], Suffix>> : i \in 1..Len(SourceBuckets)}

\* What an object that was at the destination before the run holds.
Preexisting == <<0>>

\* The results of create_bucket: Ok, or an error whose debug text is searched
\* for a marker.
CreateErrors == {"BucketAlreadyExists", "BucketAlreadyOwnedByYou", "Other"}
CreateResults == {"Ok"} \cup CreateErrors

\* format!("{:?}", e).contains(marker)
DebugContains(e, marker) == e = marker

\* The suffix read and not appended.
NotRenamed(name, suffix) == name

\* new_bucket_name += &env::var("NEW_BUCKET_SUFFIX").expect(..)
Renamed(name, suffix) == Append(name, suffix)

\* ---------------------------------------------------------------- the state

VARIABLES
    pc,                 \* where main is
    env_suffix,         \* NEW_BUCKET_SUFFIX, or Unset
    buckets,            \* the buckets the for loop has not reached yet
    bi,                 \* how many buckets the for loop has taken
    bucket_name,
    new_bucket_name,
    create_res,         \* the results of this bucket's step-1 create_bucket calls
    migrated_objects,
    src_listing,        \* the source listing as obtained, before the filter
    objects,            \* the pending objects the for loop has not reached yet
    object_key,
    object,             \* the GetObjectOutput: content_length and body stream
    upload_id,
    part,
    part_number,
    tasks,              \* the tasks spawned on the runtime, in spawn order
    upload_tasks,       \* the JoinHandles pushed: positions in tasks
    finish_order,       \* part numbers of this session in the order they finished
    completed_uploads,
    dest,               \* destination account: bucket name -> key -> body
    sessions,           \* destination account: open multipart sessions
    parts,              \* destination account: parts uploaded to the sessions
    next_upload_id,
    calls,              \* every gateway call started, in order
    ownership,          \* destination account: who holds each source bucket's name
    earlier             \* what the earlier run left, for a run started after it

mvars == << pc, env_suffix, buckets, bi, bucket_name, new_bucket_name, create_res,
            migrated_objects, src_listing, objects, object_key, object, upload_id,
            part, part_number, tasks, upload_tasks, finish_order, completed_uploads,
            dest, sessions, parts, next_upload_id, calls, ownership, earlier >>

\* The purge run (src/bin/delete.rs).
VARIABLES
    purge_pc,           \* where the purge's main is
    purge_buckets,      \* the buckets its for loop has not reached yet
    purge_bucket_name,
    purge_objects,      \* the HashSet of keys accumulated for this bucket
    next_marker,        \* list_objects_output.next_marker
    to_delete,          \* the keys the for loop over the set has not reached yet
    old_objects,        \* source account: bucket -> keys it holds (None: deleted)
    pages,              \* this bucket's listing calls: marker sent, page returned
    purge_calls         \* every gateway call the purge started, in order

pvars == << purge_pc, purge_buckets, purge_bucket_name, purge_objects, next_marker,
            to_delete, old_objects, pages, purge_calls >>

vars == << mvars, pvars >>

\* ------------------------------------------------------------- pure helpers

RECURSIVE Concat(_)
Concat(ss) == IF ss = << >> THEN << >> ELSE Head(ss) \o Concat(Tail(ss))

\* p is a prefix of s.
IsPrefix(p, s) == Len(p) <= Len(s) /\ SubSeq(s, 1, Len(p)) = p

\* Pending with the membership test done by prefix: a source key is dropped
\* when some destination key starts with it.
PendingByPrefix(listing, migrated) ==
    SelectSeq(listing, LAMBDA o : ~\E m \in migrated : IsPrefix(o.key, m))

\* objects.iter().filter(|o| !migrated_objects.contains(&o.key)).cloned().collect()
Pending(listing, migrated) ==
    SelectSeq(listing, LAMBDA o : o.key \notin migrated)

\* object.content_length().unwrap_or(0)
ContentLengthOrZero(content_length) ==
    IF content_length = None THEN 0 ELSE Unwrap(content_length)

\* The size test with <= for <: an object of exactly CHUNK_SIZE goes single-shot.
SelectInclusive(content_length) ==
    IF ContentLengthOrZero(content_length) <= CHUNK_SIZE THEN "Single" ELSE "Chunked"

\* if content_length < CHUNK_SIZE { singlepart_upload } else { multipart_upload }
Select(content_length) ==
    IF ContentLengthOrZero(content_length) < CHUNK_SIZE THEN "Single" ELSE "Chunked"

\* The completion tag the destination computes for a part body.
Digest(body) == << Len(body), body[1] >>

\* res.e_tag().unwrap_or_default()
ETagOrDefault(e_tag) == IF e_tag = None THEN << >> ELSE Unwrap(e_tag)

\* The upload functions handed the source client.
UploadClientOld == "old"

\* The client main hands to singlepart_upload and multipart_upload: &new_client.
UploadClient == "new"

Call(op, acct, bucket, key, n) ==
    [op |-> op, acct |-> acct, bucket |-> bucket, key |-> key, n |-> n, b |-> bi]

\* The tasks behind the handles multipart_upload holds in upload_tasks.
UploadTasks == [i \in 1..Len(upload_tasks) |-> tasks[upload_tasks[i]]]

\* A panic of main ends the process: the runtime is dropped and the tasks
\* still running are cancelled.
Cancelled(ts) ==
    [i \in 1..Len(ts) |->
        IF ts[i].status = "running" THEN [ts[i] EXCEPT !.status = "cancelled"]
        ELSE ts[i]]

BucketNames == {SourceBuckets[i] : i \in 1..Len(SourceBuckets)}

\* The keys of a listing.
KeysOf(listing) == {listing[i].key : i \in 1..Len(listing)}

\* The state the purge starts in; the source account holds SourceObjects.
PurgeInit ==
    /\ purge_pc = "list_buckets"
    /\ purge_buckets = << >>
    /\ purge_bucket_name = ""
    /\ purge_objects = {}
    /\ next_marker = None
    /\ to_delete = {}
    /\ old_objects = [b \in BucketNames |-> Some(KeysOf(SourceObjects(b)))]
    /\ pages = << >>
    /\ purge_calls = << >>

\* The state the migration starts in, with NEW_BUCKET_SUFFIX as given and the
\* given keys already in every destination bucket.
InitWith(suffix, present) ==
    /\ pc = "list_buckets"
    /\ env_suffix = suffix
    /\ buckets = << >>
    /\ bi = 0
    /\ bucket_name = ""
    /\ new_bucket_name = << >>
    /\ create_res = << >>
    /\ migrated_objects = {}
    /\ src_listing = << >>
    /\ objects = << >>
    /\ object_key = NoName
    /\ object = [content_length |-> None, body |-> << >>]
    /\ upload_id = 0
    /\ part = << >>
    /\ part_number = 0
    /\ tasks = << >>
    /\ upload_tasks = << >>
    /\ finish_order = << >>
    /\ completed_uploads = << >>
    /\ dest = [n \in DestNames |->
                 [k \in Keys |-> IF k \in present THEN Some(Preexisting) ELSE None]]
    /\ sessions = {}
    /\ parts = {}
    /\ next_upload_id = 1
    /\ calls = << >>
    /\ ownership = [b \in BucketNames |-> "unknown"]
    /\ earlier = None

\* A migration run: any setting of NEW_BUCKET_SUFFIX, any keys at the destination.
Init ==
    /\ \E suffix \in {Unset, Suffix}, present \in SUBSET Keys : InitWith(suffix, present)
    /\ PurgeInit

\* --------------------------------------------------------------- main.rs

\* The error dropped and the object loop gone on.
PanicSwallowed ==
    /\ pc' = "for_object"
    /\ tasks' = tasks

\* A failed call that main unwraps: the panic ends the run.
Panic ==
    /\ pc' = "panicked"
    /\ tasks' = Cancelled(tasks)

\* old_client.list_buckets().send().await.unwrap().buckets.unwrap()
ListBuckets ==
    /\ UNCHANGED << pvars, ownership, earlier, upload_tasks >>
    /\ pc = "list_buckets"
    /\ calls' = Append(calls, Call("list_buckets", "old", NoName, NoName, 0))
    /\ \E ok \in BOOLEAN :
         IF ok
         THEN /\ buckets' = SourceBuckets
              /\ pc' = "for_bucket"
              /\ UNCHANGED tasks
         ELSE /\ Panic
              /\ UNCHANGED buckets
    /\ UNCHANGED << env_suffix, bi, bucket_name, new_bucket_name, create_res,
                    migrated_objects, src_listing, objects, object_key, object,
                    upload_id, part, part_number, finish_order, completed_uploads,
                    dest, sessions, parts, next_upload_id >>

\* for bucket in buckets { let bucket_name = ...; let mut new_bucket_name = ... }
ForBucket ==
    /\ UNCHANGED << pvars, ownership, earlier, upload_tasks >>
    /\ pc = "for_bucket"
    /\ IF buckets = << >>
       THEN /\ pc' = "done"
            /\ UNCHANGED << buckets, bi, bucket_name, new_bucket_name, create_res >>
       ELSE /\ bucket_name' = Head(buckets)
            /\ buckets' = Tail(buckets)
            /\ bi' = bi + 1
            /\ new_bucket_name' = << Head(buckets) >>
            /\ create_res' = << >>
            /\ pc' = "create_bucket"
    /\ UNCHANGED << env_suffix, migrated_objects, src_listing, objects, object_key,
                    object, upload_id, part, part_number, tasks, finish_order,
                    completed_uploads, dest, sessions, parts, next_upload_id, calls >>

\* The destination account does not contradict itself: a name it has reported
\* as held by this account is not reported taken by another later, nor the
\* reverse.
Consistent(holder, res) ==
    /\ holder = "ours" => res # "BucketAlreadyExists"
    /\ holder = "foreign" => res \in {"BucketAlreadyExists", "Other"}

\* What a create_bucket result tells about who holds the name.
Told(holder, res) ==
    IF res \in {"Ok", "BucketAlreadyOwnedByYou"} THEN "ours"
    ELSE IF res = "BucketAlreadyExists" THEN "foreign"
    ELSE holder

\* The first create_bucket of step 1 and the handling of its error.
CreateBucket ==
    /\ UNCHANGED << pvars, earlier, upload_tasks >>
    /\ pc = "create_bucket"
    /\ calls' = Append(calls, Call("create_bucket", "new", new_bucket_name, NoName, 0))
    /\ \E res \in CreateResults :
         /\ Consistent(ownership[bucket_name], res)
         /\ ownership' = [ownership EXCEPT ![bucket_name] = Told(@, res)]
         /\ create_res' = << res >>
         /\ IF res = "Ok"
            THEN /\ pc' = "list_dest"
                 /\ UNCHANGED << new_bucket_name, tasks >>
            ELSE IF DebugContains(res, "BucketAlreadyExists")
            THEN IF env_suffix = Unset
                 THEN /\ Panic
                      /\ UNCHANGED new_bucket_name
                 ELSE /\ new_bucket_name' = Renamed(new_bucket_name, env_suffix)
                      /\ pc' = "retry_create"
                      /\ UNCHANGED tasks
            ELSE IF ~DebugContains(res, "BucketAlreadyOwnedByYou")
            THEN /\ Panic
                 /\ UNCHANGED new_bucket_name
            ELSE /\ pc' = "list_dest"
                 /\ UNCHANGED << new_bucket_name, tasks >>
    /\ UNCHANGED << env_suffix, buckets, bi, bucket_name, migrated_objects,
                    src_listing, objects, object_key, object, upload_id, part,
                    part_number, finish_order, completed_uploads, dest, sessions,
                    parts, next_upload_id >>

\* let _ = new_client.create_bucket().bucket(&new_bucket_name).send().await;
CreateBucketRetry ==
    /\ UNCHANGED << pvars, ownership, earlier, upload_tasks >>
    /\ pc = "retry_create"
    /\ calls' = Append(calls, Call("create_bucket", "new", new_bucket_name, NoName, 0))
    /\ \E res \in CreateResults : create_res' = Append(create_res, res)
    /\ pc' = "list_dest"
    /\ UNCHANGED << env_suffix, buckets, bi, bucket_name, new_bucket_name,
                    migrated_objects, src_listing, objects, object_key, object,
                    upload_id, part, part_number, tasks, finish_order,
                    completed_uploads, dest, sessions, parts, next_upload_id >>

\* The listing asked of the bucket's original name, not of the resolved one.
DestKeysOriginal(name) == {k \in Keys : dest[<< name[1] >>][k] # None}

\* The keys the destination reports for a bucket.
DestKeys(name) == {k \in Keys : dest[name][k] # None}

\* new_client.list_objects_v2()...send().await.unwrap().contents.unwrap_or(vec![])
ListDest ==
    /\ UNCHANGED << pvars, ownership, earlier, upload_tasks >>
    /\ pc = "list_dest"
    /\ calls' = Append(calls, Call("list_objects_v2", "new", new_bucket_name, NoName, 0))
    /\ \E ok \in BOOLEAN :
         IF ok
         THEN /\ migrated_objects' = DestKeys(new_bucket_name)
              /\ pc' = "list_src"
              /\ UNCHANGED tasks
         ELSE /\ Panic
              /\ UNCHANGED migrated_objects
    /\ UNCHANGED << env_suffix, buckets, bi, bucket_name, new_bucket_name, create_res,
                    src_listing, objects, object_key, object, upload_id, part,
                    part_number, finish_order, completed_uploads, dest, sessions,
                    parts, next_upload_id >>

\* old_client.list_objects()...send().await.unwrap().contents.unwrap_or(vec![]),
\* then the filter against migrated_objects.
ListSource ==
    /\ UNCHANGED << pvars, ownership, earlier, upload_tasks >>
    /\ pc = "list_src"
    /\ calls' = Append(calls, Call("list_objects", "old", << bucket_name >>, NoName, 0))
    /\ \E ok \in BOOLEAN :
         IF ok
         THEN /\ src_listing' = SourceObjects(bucket_name)
              /\ objects' = Pending(SourceObjects(bucket_name), migrated_objects)
              /\ pc' = "create_constrained"
              /\ UNCHANGED tasks
         ELSE /\ Panic
              /\ UNCHANGED << src_listing, objects >>
    /\ UNCHANGED << env_suffix, buckets, bi, bucket_name, new_bucket_name, create_res,
                    migrated_objects, object_key, object, upload_id, part,
                    part_number, finish_order, completed_uploads, dest, sessions,
                    parts, next_upload_id >>

\* let _ = new_client.create_bucket().create_bucket_configuration(..)...await;
CreateBucketConstrained ==
    /\ UNCHANGED << pvars, ownership, earlier, upload_tasks >>
    /\ pc = "create_constrained"
    /\ calls' = Append(calls, Call("create_bucket", "new", new_bucket_name, NoName, 0))
    /\ \E res \in CreateResults : pc' = "for_object"
    /\ UNCHANGED << env_suffix, buckets, bi, bucket_name, new_bucket_name, create_res,
                    migrated_objects, src_listing, objects, object_key, object,
                    upload_id, part, part_number, tasks, finish_order,
                    completed_uploads, dest, sessions, parts, next_upload_id >>

\* for object in objects { let object_key = ... }
ForObject ==
    /\ UNCHANGED << pvars, ownership, earlier, upload_tasks >>
    /\ pc = "for_object"
    /\ IF objects = << >>
       THEN /\ pc' = "for_bucket"
            /\ UNCHANGED << objects, object_key >>
       ELSE /\ object_key' = Head(objects).key
            /\ objects' = Tail(objects)
            /\ pc' = "get_object"
    /\ UNCHANGED << env_suffix, buckets, bi, bucket_name, new_bucket_name, create_res,
                    migrated_objects, src_listing, object, upload_id, part,
                    part_number, tasks, finish_order, completed_uploads, dest,
                    sessions, parts, next_upload_id, calls >>

\* old_client.get_object()...send().await.unwrap(), then the size test.
GetObject ==
    /\ UNCHANGED << pvars, ownership, earlier, upload_tasks >>
    /\ pc = "get_object"
    /\ calls' = Append(calls, Call("get_object", "old", << bucket_name >>, object_key, 0))
    /\ \E ok \in BOOLEAN :
         IF ok
         THEN /\ \E content_length \in {Some(SourceSize(bucket_name, object_key)), None} :
                   /\ object' = [content_length |-> content_length,
                                 body |-> Content(SourceSize(bucket_name, object_key))]
                   /\ pc' = IF Select(content_length) = "Single"
                            THEN "put_object" ELSE "create_multipart_upload"
              /\ UNCHANGED tasks
         ELSE /\ Panic
              /\ UNCHANGED object
    /\ UNCHANGED << env_suffix, buckets, bi, bucket_name, new_bucket_name, create_res,
                    migrated_objects, src_listing, objects, object_key, upload_id,
                    part, part_number, finish_order, completed_uploads, dest,
                    sessions, parts, next_upload_id >>

\* singlepart_upload(..).await.unwrap(): one put_object of the whole body.
SinglepartUpload ==
    /\ UNCHANGED << pvars, ownership, earlier, upload_tasks >>
    /\ pc = "put_object"
    /\ calls' = Append(calls, Call("put_object", UploadClient, new_bucket_name, object_key, 0))
    /\ \E ok \in BOOLEAN :
         IF ok
         THEN /\ dest' = [dest EXCEPT ![new_bucket_name][object_key] = Some(object.body)]
              /\ pc' = "for_object"
              /\ UNCHANGED tasks
         ELSE /\ Panic
              /\ UNCHANGED dest
    /\ UNCHANGED << env_suffix, buckets, bi, bucket_name, new_bucket_name, create_res,
                    migrated_objects, src_listing, objects, object_key, object,
                    upload_id, part, part_number, finish_order, completed_uploads,
                    sessions, parts, next_upload_id >>

\* ------------------------------------------------------ multipart_upload

\* client.create_multipart_upload()...send().await.unwrap(); upload_id.unwrap();
\* let mut part = vec![]; let mut part_number = 0; let mut upload_tasks = vec![];
CreateMultipartUpload ==
    /\ UNCHANGED << pvars, ownership, earlier >>
    /\ pc = "create_multipart_upload"
    /\ calls' = Append(calls,
                  Call("create_multipart_upload", UploadClient, new_bucket_name, object_key, 0))
    /\ \E ok \in BOOLEAN :
         IF ok
         THEN /\ upload_id' = next_upload_id
              /\ next_upload_id' = next_upload_id + 1
              /\ sessions' = sessions \cup
                    {[upload_id |-> next_upload_id, bucket |-> new_bucket_name,
                      key |-> object_key]}
              /\ part' = << >>
              /\ part_number' = 0
              /\ upload_tasks' = << >>
              /\ finish_order' = << >>
              /\ pc' = "read"
              /\ UNCHANGED tasks
         ELSE /\ Panic
              /\ UNCHANGED << upload_id, next_upload_id, sessions, part, part_number,
                              upload_tasks, finish_order >>
    /\ UNCHANGED << env_suffix, buckets, bi, bucket_name, new_bucket_name, create_res,
                    migrated_objects, src_listing, objects, object_key, object,
                    completed_uploads, dest, parts >>

\* The task given the count as it was before the increment.
SpawnedBeforeIncrement(number, body) ==
    [upload_id |-> upload_id, part_number |-> number - 1, body |-> body,
     status |-> "running", ok |-> FALSE, e_tag |-> None]

\* tokio::spawn(async move { upload_part(.., part_number, &upload_id, body).await })
Spawned(number, body) ==
    [upload_id |-> upload_id, part_number |-> number, body |-> body,
     status |-> "running", ok |-> FALSE, e_tag |-> None]

\* The cut made only once the buffer exceeds the chunk size.
CutLate(buffer) == Len(buffer) > CHUNK_SIZE

\* The cut made one byte early.
CutEarly(buffer) == Len(buffer) >= CHUNK_SIZE - 1

\* part.len() >= CHUNK_SIZE
CutNow(buffer) == Len(buffer) >= CHUNK_SIZE

\* The buffer cloned instead of taken: its bytes stay for the next part.
AfterClone(buffer) == buffer

\* take(&mut part): the buffer is moved out and an empty one is left.
AfterTake(buffer) == << >>

\* The handle dropped instead of pushed: the task runs detached.
NotPushed(handles, task) == handles

\* upload_tasks.push(task)
Pushed(handles, task) == Append(handles, task)

\* The count left as it is.
NotIncremented(number) == number

\* part_number += 1
Incremented(number) == number + 1

\* Every task awaited where it is spawned.
AwaitedEach(handles) == {handles[i] : i \in 1..Len(handles)}

\* The handles the read loop awaits before it reads on: none.  tokio::spawn
\* returns the JoinHandle at once and the loop pushes it.
AwaitedInLoop(handles) == {}

\* One Some(bytes) of object.body.try_next(): extend the buffer and, when it has
\* reached CHUNK_SIZE, take it whole as the next part and spawn its upload.
ReadChunk ==
    /\ UNCHANGED << pvars, ownership, earlier >>
    /\ pc = "read"
    /\ \A h \in AwaitedInLoop(UploadTasks) : h.status = "done"
    /\ \E n \in 0..MaxRead :
         /\ n <= Len(object.body)
         /\ LET bytes == SubSeq(object.body, 1, n)
                buffer == part \o bytes
            IN /\ object' = [object EXCEPT
                               !.body = SubSeq(object.body, n + 1, Len(object.body))]
               /\ IF CutNow(buffer)
                  THEN /\ part_number' = Incremented(part_number)
                       /\ part' = AfterTake(buffer)
                       /\ tasks' = Append(tasks, Spawned(Incremented(part_number), buffer))
                       /\ upload_tasks' = Pushed(upload_tasks, Len(tasks) + 1)
                       /\ calls' = Append(calls,
                             Call("upload_part", UploadClient, new_bucket_name, object_key,
                                  Incremented(part_number)))
                  ELSE /\ part' = buffer
                       /\ UNCHANGED << part_number, tasks, upload_tasks, calls >>
    /\ UNCHANGED << pc, env_suffix, buckets, bi, bucket_name, new_bucket_name,
                    create_res, migrated_objects, src_listing, objects, object_key,
                    upload_id, finish_order, completed_uploads, dest, sessions, parts,
                    next_upload_id >>

\* try_next() returns None: the loop ends and a non-empty buffer is flushed as
\* the last part.
ReadEnd ==
    /\ UNCHANGED << pvars, ownership, earlier >>
    /\ pc = "read"
    /\ \A h \in AwaitedInLoop(UploadTasks) : h.status = "done"
    /\ object.body = << >>
    /\ IF part # << >>
       THEN /\ part_number' = Incremented(part_number)
            /\ tasks' = Append(tasks, Spawned(Incremented(part_number), part))
            /\ upload_tasks' = Pushed(upload_tasks, Len(tasks) + 1)
            /\ part' = << >>
            /\ calls' = Append(calls,
                  Call("upload_part", UploadClient, new_bucket_name, object_key,
                       Incremented(part_number)))
       ELSE UNCHANGED << part_number, tasks, upload_tasks, part, calls >>
    /\ pc' = "join"
    /\ UNCHANGED << env_suffix, buckets, bi, bucket_name, new_bucket_name, create_res,
                    migrated_objects, src_listing, objects, object_key, object,
                    upload_id, finish_order, completed_uploads, dest, sessions, parts,
                    next_upload_id >>

\* try_next() returns Err: the unwrap panics.
ReadFail ==
    /\ UNCHANGED << pvars, ownership, earlier, upload_tasks >>
    /\ pc = "read"
    /\ Panic
    /\ UNCHANGED << env_suffix, buckets, bi, bucket_name, new_bucket_name, create_res,
                    migrated_objects, src_listing, objects, object_key, object,
                    upload_id, part, part_number, finish_order, completed_uploads,
                    dest, sessions, parts, next_upload_id, calls >>

\* The part written as an object under the key: put_object for upload_part.
PartAsObject(d, task) ==
    [d EXCEPT ![new_bucket_name][object_key] = Some(task.body)]

\* What client.upload_part() makes of the destination's objects: nothing, the
\* part is kept in the session.
AfterUploadPart(d, task) == d

\* A spawned upload_part task finishes: the destination stores the part and
\* answers with its tag (or with none), or the call fails and the task returns Err.
UploadPartFinish ==
    /\ UNCHANGED << pvars, ownership, earlier, upload_tasks >>
    /\ \E i \in 1..Len(tasks) :
         /\ tasks[i].status = "running"
         /\ \E ok \in BOOLEAN, tagged \in BOOLEAN :
              /\ ok \/ ~tagged
              /\ LET e_tag == IF tagged THEN Some(Digest(tasks[i].body)) ELSE None
                 IN /\ tasks' = [tasks EXCEPT ![i].status = "done", ![i].ok = ok,
                                              ![i].e_tag = e_tag]
                    /\ parts' =
                         IF ok
                         THEN {p \in parts : ~(p.upload_id = tasks[i].upload_id
                                               /\ p.part_number = tasks[i].part_number)}
                              \cup {[upload_id |-> tasks[i].upload_id,
                                     part_number |-> tasks[i].part_number,
                                     body |-> tasks[i].body, e_tag |-> e_tag]}
                         ELSE parts
                    /\ dest' = IF ok THEN AfterUploadPart(dest, tasks[i]) ELSE dest
         /\ finish_order' = Append(finish_order, tasks[i].part_number)
    /\ UNCHANGED << pc, env_suffix, buckets, bi, bucket_name, new_bucket_name,
                    create_res, migrated_objects, src_listing, objects, object_key,
                    object, upload_id, part, part_number, completed_uploads,
                    sessions, next_upload_id, calls >>

\* try_join_all resolves once every handle has: a task never panics, so no
\* JoinError ends it early.
AllJoined(handles) == \A i \in 1..Len(handles) : handles[i].status = "done"

\* Only the first result is unwrapped.
FirstOk(handles) == handles = << >> \/ handles[1].ok

\* res.as_ref().unwrap() passes for every handle: no part upload returned Err.
AllOk(handles) == \A i \in 1..Len(handles) : handles[i].ok

\* The manifest built from the results in the order the tasks finished.
CompletedPartsAsFinished(handles) ==
    [i \in 1..Len(handles) |->
        [part_number |-> i,
         e_tag |-> ETagOrDefault(handles[finish_order[i]].e_tag)]]

\* .iter().enumerate().map(|(i, res)| CompletedPart { e_tag, part_number: i + 1 })
CompletedParts(handles) ==
    [i \in 1..Len(handles) |->
        [part_number |-> i, e_tag |-> ETagOrDefault(handles[i].e_tag)]]

\* futures::future::try_join_all(upload_tasks).await.unwrap(), then the map whose
\* res.as_ref().unwrap() panics on a failed part.
Join ==
    /\ UNCHANGED << pvars, ownership, earlier, upload_tasks >>
    /\ pc = "join"
    /\ AllJoined(UploadTasks)
    /\ IF AllOk(UploadTasks)
       THEN /\ completed_uploads' = CompletedParts(UploadTasks)
            /\ pc' = "complete_multipart_upload"
            /\ UNCHANGED tasks
       ELSE /\ Panic
            /\ UNCHANGED completed_uploads
    /\ UNCHANGED << env_suffix, buckets, bi, bucket_name, new_bucket_name, create_res,
                    migrated_objects, src_listing, objects, object_key, object,
                    upload_id, part, part_number, finish_order, dest, sessions, parts,
                    next_upload_id, calls >>

\* The part the destination holds for a part number of a session.
PartOf(id, number) ==
    CHOOSE p \in parts : p.upload_id = id /\ p.part_number = number

\* The destination accepts a manifest whose entries name uploaded parts, in
\* ascending order, each with the tag the part was answered with.
ManifestAccepted(id, manifest) ==
    /\ \A i \in 1..Len(manifest) :
         \E p \in parts : /\ p.upload_id = id
                          /\ p.part_number = manifest[i].part_number
                          /\ ETagOrDefault(p.e_tag) = manifest[i].e_tag
    /\ \A i, j \in 1..Len(manifest) :
         i < j => manifest[i].part_number < manifest[j].part_number

\* The object the destination assembles: the parts in manifest order.
Assembled(id, manifest) ==
    Concat([i \in 1..Len(manifest) |-> PartOf(id, manifest[i].part_number).body])

\* client.complete_multipart_upload()...send().await.unwrap(); Ok(())
CompleteMultipartUpload ==
    /\ UNCHANGED << pvars, ownership, earlier >>
    /\ pc = "complete_multipart_upload"
    /\ calls' = Append(calls,
                  Call("complete_multipart_upload", UploadClient, new_bucket_name, object_key, 0))
    /\ \E ok \in BOOLEAN :
         IF ok /\ ManifestAccepted(upload_id, completed_uploads)
         THEN /\ dest' = [dest EXCEPT ![new_bucket_name][object_key] =
                                        Some(Assembled(upload_id, completed_uploads))]
              /\ sessions' = {s \in sessions : s.upload_id # upload_id}
              /\ parts' = {p \in parts : p.upload_id # upload_id}
              /\ tasks' = SelectSeq(tasks, LAMBDA t : t.status = "running")
              /\ upload_tasks' = << >>
              /\ pc' = "for_object"
         ELSE /\ Panic
              /\ UNCHANGED << dest, sessions, parts, upload_tasks >>
    /\ UNCHANGED << env_suffix, buckets, bi, bucket_name, new_bucket_name, create_res,
                    migrated_objects, src_listing, objects, object_key, object,
                    upload_id, part, part_number, finish_order, completed_uploads,
                    next_upload_id >>

\* The migration run.
Next ==
    \/ ListBuckets
    \/ ForBucket
    \/ CreateBucket
    \/ CreateBucketRetry
    \/ ListDest
    \/ ListSource
    \/ CreateBucketConstrained
    \/ ForObject
    \/ GetObject
    \/ SinglepartUpload
    \/ CreateMultipartUpload
    \/ ReadChunk
    \/ ReadEnd
    \/ ReadFail
    \/ UploadPartFinish
    \/ Join
    \/ CompleteMultipartUpload

\* The objects the run has transferred: a put_object or a
\* complete_multipart_upload was called for the key, and the key is there.
Transferred ==
    {<< calls[i].bucket, calls[i].key >> :
        i \in {j \in 1..Len(calls) :
                  /\ calls[j].op \in {"put_object", "complete_multipart_upload"}
                  /\ dest[calls[j].bucket][calls[j].key] # None}}

\* The program is started again after a run that has ended, by returning or by
\* a panic: a new process with fresh locals and the same environment, on the
\* accounts as the earlier run left them.
Rerun ==
    /\ UNCHANGED << pvars, ownership >>
    /\ pc \in {"done", "panicked"}
    /\ earlier = None
    /\ earlier' = Some([outcome |-> pc, dest |-> dest, transferred |-> Transferred])
    /\ pc' = "list_buckets"
    /\ buckets' = << >>
    /\ bi' = 0
    /\ bucket_name' = ""
    /\ new_bucket_name' = << >>
    /\ create_res' = << >>
    /\ migrated_objects' = {}
    /\ src_listing' = << >>
    /\ objects' = << >>
    /\ object_key' = NoName
    /\ object' = [content_length |-> None, body |-> << >>]
    /\ upload_id' = 0
    /\ part' = << >>
    /\ part_number' = 0
    /\ tasks' = << >>
    /\ upload_tasks' = << >>
    /\ finish_order' = << >>
    /\ completed_uploads' = << >>
    /\ calls' = << >>
    /\ UNCHANGED << env_suffix, dest, sessions, parts, next_upload_id >>

\* A migration run and, once it has ended, a second one.
RerunNext ==
    \/ Next
    \/ Rerun

\* ------------------------------------------------------------- delete.rs

PurgeCall(op, bucket, key) == [op |-> op, bucket |-> bucket, key |-> key]

\* The error dropped and the bucket loop gone on.
PurgeSkip == purge_pc' = "for_bucket"

\* A failed call that the purge's main unwraps.
PurgePanic == purge_pc' = "panicked"

\* old_client.list_buckets().send().await.unwrap().buckets.unwrap_or_default()
PurgeListBuckets ==
    /\ UNCHANGED mvars
    /\ purge_pc = "list_buckets"
    /\ purge_calls' = Append(purge_calls, PurgeCall("list_buckets", "", NoName))
    /\ \E ok \in BOOLEAN :
         IF ok
         THEN /\ purge_buckets' =
                    SelectSeq(SourceBuckets, LAMBDA b : old_objects[b] # None)
              /\ purge_pc' = "for_bucket"
         ELSE /\ PurgePanic
              /\ UNCHANGED purge_buckets
    /\ UNCHANGED << purge_bucket_name, purge_objects, next_marker, to_delete,
                    old_objects, pages >>

\* for bucket in .. { let bucket_name = ..; let mut objects = HashSet::new(); }
PurgeForBucket ==
    /\ UNCHANGED mvars
    /\ purge_pc = "for_bucket"
    /\ IF purge_buckets = << >>
       THEN /\ purge_pc' = "done"
            /\ UNCHANGED << purge_buckets, purge_bucket_name, purge_objects, pages,
                            next_marker >>
       ELSE /\ purge_bucket_name' = Head(purge_buckets)
            /\ purge_buckets' = Tail(purge_buckets)
            /\ purge_objects' = {}
            /\ pages' = << >>
            /\ next_marker' = None
            /\ purge_pc' = "list_objects"
    /\ UNCHANGED << to_delete, old_objects, purge_calls >>

\* The keys a bucket of the source account holds.
OldKeys(bucket) == IF old_objects[bucket] = None THEN {} ELSE Unwrap(old_objects[bucket])

\* The set replaced by the page instead of extended by it.
LastPageOnly(set, contents) == contents

\* for object in list_objects_output.contents.unwrap_or_default() { objects.insert(..) }
Accumulate(set, contents) == set \cup contents

\* The marker of the first output sent by every call of the while loop.
MarkerOfFirst == IF pages = << >> THEN None ELSE pages[1].next_marker

\* The marker a listing call is sent: none by the first call, the well-formed
\* next_marker of the last output by the calls of the while loop.
MarkerSent == next_marker

\* One list_objects call and the loop over its contents.  The account answers
\* with any page of the bucket's keys and, up to MaxPages, with a marker (a key
\* of the page, from which the listing goes on) or with none.
ListPage(first) ==
    /\ purge_calls' = Append(purge_calls,
                        PurgeCall("list_objects", purge_bucket_name, NoName))
    /\ \E ok \in BOOLEAN :
         IF ok
         THEN \E contents \in SUBSET OldKeys(purge_bucket_name) :
              \E marker \in {None} \cup {Some(k) : k \in contents} :
                /\ Len(pages) + 1 >= MaxPages => marker = None
                /\ purge_objects' = Accumulate(purge_objects, contents)
                /\ pages' = Append(pages,
                              [marker |-> IF first THEN None ELSE MarkerSent,
                               contents |-> contents, next_marker |-> marker])
                /\ next_marker' = marker
                /\ purge_pc' = IF marker # None THEN "list_objects_marker"
                               ELSE "for_object"
                /\ to_delete' = IF marker # None THEN to_delete
                                ELSE Accumulate(purge_objects, contents)
         ELSE /\ PurgePanic
              /\ UNCHANGED << purge_objects, pages, next_marker, to_delete >>
    /\ UNCHANGED << purge_buckets, purge_bucket_name, old_objects >>

\* let mut list_objects_output = old_client.list_objects().bucket(..).send()...
PurgeListObjects ==
    /\ UNCHANGED mvars
    /\ purge_pc = "list_objects"
    /\ ListPage(TRUE)

\* while let Some(next_marker) = list_objects_output.next_marker { .. }
PurgeListObjectsMarker ==
    /\ UNCHANGED mvars
    /\ purge_pc = "list_objects_marker"
    /\ next_marker # None
    /\ ListPage(FALSE)

\* for object in objects { old_client.delete_object()...await.unwrap(); }
\* A HashSet iterates in an order of its own: any key not yet reached is next.
PurgeDeleteObject ==
    /\ UNCHANGED mvars
    /\ purge_pc = "for_object"
    /\ to_delete # {}
    /\ \E key \in to_delete :
         /\ purge_calls' = Append(purge_calls,
                             PurgeCall("delete_object", purge_bucket_name, key))
         /\ \E ok \in BOOLEAN :
              IF ok
              THEN /\ old_objects' = [old_objects EXCEPT ![purge_bucket_name] =
                                        Some(OldKeys(purge_bucket_name) \ {key})]
                   /\ to_delete' = to_delete \ {key}
                   /\ UNCHANGED purge_pc
              ELSE /\ PurgePanic
                   /\ UNCHANGED << old_objects, to_delete >>
    /\ UNCHANGED << purge_buckets, purge_bucket_name, purge_objects, next_marker,
                    pages >>

\* old_client.delete_bucket().bucket(bucket_name).send().await.unwrap();
\* the account refuses to delete a bucket that still holds a key.
PurgeDeleteBucket ==
    /\ UNCHANGED mvars
    /\ purge_pc = "for_object"
    /\ to_delete = {}
    /\ purge_calls' = Append(purge_calls,
                        PurgeCall("delete_bucket", purge_bucket_name, NoName))
    /\ \E ok \in BOOLEAN :
         IF ok /\ OldKeys(purge_bucket_name) = {}
         THEN /\ old_objects' = [old_objects EXCEPT ![purge_bucket_name] = None]
              /\ purge_pc' = "for_bucket"
         ELSE /\ PurgePanic
              /\ UNCHANGED old_objects
    /\ UNCHANGED << purge_buckets, purge_bucket_name, purge_objects, next_marker,
                    to_delete, pages >>

\* The purge run.
PurgeNext ==
    \/ PurgeListBuckets
    \/ PurgeForBucket
    \/ PurgeListObjects
    \/ PurgeListObjectsMarker
    \/ PurgeDeleteObject
    \/ PurgeDeleteBucket

\* ------------------------------------------------------ the specifications

Spec == Init /\ [][Next]_vars

\* The purge run, started on the source account as it is before a migration.
PurgeStart == InitWith(Unset, {}) /\ PurgeInit

PurgeSpec == PurgeStart /\ [][PurgeNext]_vars

\* Two runs in a row, with NEW_BUCKET_SUFFIX set and one key at the destination
\* before the first.
RerunStart == InitWith(Suffix, {KeyC}) /\ PurgeInit

RerunSpec == RerunStart /\ [][RerunNext]_vars

\* The purge run with its main driven on: every call it awaits returns.
PurgeFairSpec == PurgeSpec /\ WF_vars(PurgeNext)

\* =================================================================== claims

\* The calls of the migration run made while the for loop was at bucket b.
BucketCalls(b) == SelectSeq(calls, LAMBDA c : c.b = b)

\* The keys of bucket b named in a call of one of the given operations.
KeysCalled(b, ops) ==
    {calls[i].key : i \in {j \in 1..Len(calls) : calls[j].b = b /\ calls[j].op \in ops}}

\* The keys of bucket b whose source object was fetched, and those for which
\* an upload (single-shot or multipart) was begun.
Fetched(b) == KeysCalled(b, {"get_object"})
Uploading(b) == KeysCalled(b, {"put_object", "create_multipart_upload"})

\* Both listings of the current bucket have been obtained.
Listed ==
    pc \in {"create_constrained", "for_object", "get_object", "put_object",
            "create_multipart_upload", "read", "join", "complete_multipart_upload"}

\* The object loop of the current bucket has run to its end.
ObjectsDone == pc = "for_object" /\ objects = << >>

\* The bytes of the source object being transferred.
SourceBytes == Content(SourceSize(bucket_name, object_key))

\* C1: the keys of a bucket for which a transfer is started are source-listing
\* keys absent from the destination listing under exact equality, at every
\* moment; once the bucket's object loop has ended they are exactly those
\* keys: none for an empty source listing, all for an empty destination listing.
C1_DiffCorrectness ==
    Listed =>
      LET difference == KeysOf(src_listing) \ migrated_objects
          \* the key the loop has taken and is about to fetch
          taken == IF pc = "get_object" THEN {object_key} ELSE {}
      IN /\ Uploading(bi) \subseteq Fetched(bi)
         /\ Fetched(bi) \subseteq difference
         /\ Fetched(bi) \cup taken \cup KeysOf(objects) = difference
         /\ ObjectsDone => /\ Fetched(bi) = difference
                           /\ Uploading(bi) = difference
         /\ src_listing = << >> => Fetched(bi) = {}
         /\ (ObjectsDone /\ migrated_objects = {}) => Fetched(bi) = KeysOf(src_listing)

\* A bucket is done whose destination held only a key that another key is a
\* prefix of: the shorter key and the third key were transferred.
C1_Witness ==
    /\ ObjectsDone
    /\ bi = 1
    /\ migrated_objects = {KeyAB}
    /\ Uploading(1) = {KeyA, KeyC}

\* The number of parts dispatched in the current session.
Dispatched == part_number

\* C2: when a chunked transfer reaches Complete, the manifest lists the part
\* numbers 1..k in ascending order, k being the number of parts dispatched, the
\* destination holds exactly one part under each of them, and their payloads
\* concatenated in that order are the source byte stream; an object the
\* destination has assembled is byte for byte its source object.
C2_RoundTrip ==
    /\ pc = "complete_multipart_upload" =>
         LET k == Len(completed_uploads)
         IN /\ k = Dispatched
            /\ \A i \in 1..k : completed_uploads[i].part_number = i
            /\ \A i \in 1..k :
                 Cardinality({p \in parts : p.upload_id = upload_id
                                            /\ p.part_number = i}) = 1
            /\ {p.part_number : p \in {q \in parts : q.upload_id = upload_id}} = 1..k
            /\ Concat([i \in 1..k |-> PartOf(upload_id, i).body]) = SourceBytes
    /\ \A i \in 1..Len(calls) :
         calls[i].op = "complete_multipart_upload" =>
           dest[calls[i].bucket][calls[i].key]
             \in {None, Some(Content(SourceSize(calls[i].bucket[1], calls[i].key)))}

\* The three-part transfer is at Complete.
C2_Witness ==
    /\ pc = "complete_multipart_upload"
    /\ Len(completed_uploads) = 3
    /\ object_key = KeyC

\* C3: the manifest handed to complete-multipart-upload does not depend on the
\* order in which the part uploads finished: entry i carries part number i and
\* the tag the destination answered the upload of part number i with.
C3_ManifestByAssignment ==
    pc = "complete_multipart_upload" =>
      /\ Len(completed_uploads) = Dispatched
      /\ \A i \in 1..Len(completed_uploads) :
           /\ completed_uploads[i].part_number = i
           /\ tasks[upload_tasks[i]].part_number = i
           /\ completed_uploads[i].e_tag = ETagOrDefault(PartOf(upload_id, i).e_tag)

\* At Complete, with the last part finished first and every part tagged.
C3_Witness ==
    /\ pc = "complete_multipart_upload"
    /\ finish_order = << 3, 1, 2 >>
    /\ \A i \in 1..3 : completed_uploads[i].e_tag = Digest(UploadTasks[i].body)

\* A part upload of the current session has failed.
PartFailed ==
    \E i \in 1..Len(tasks) :
        tasks[i].upload_id = upload_id /\ tasks[i].status = "done" /\ ~tasks[i].ok

\* complete-multipart-upload was called for the current object.
CompleteCalled ==
    \E i \in 1..Len(calls) :
        /\ calls[i].op = "complete_multipart_upload"
        /\ calls[i].b = bi
        /\ calls[i].key = object_key

\* C4: complete-multipart-upload is invoked only when every dispatched part
\* upload has finished and succeeded; after a failed part upload the transfer
\* never completes: Complete is not invoked, no abort is issued, and the
\* session stays open at the destination.
C4_CompleteOnlyAfterAll ==
    /\ pc = "complete_multipart_upload" =>
         /\ Len(upload_tasks) = Dispatched
         /\ \A i \in 1..Len(tasks) :
              tasks[i].upload_id = upload_id =>
                tasks[i].status = "done" /\ tasks[i].ok
    /\ PartFailed =>
         /\ pc \in {"read", "join", "panicked"}
         /\ ~CompleteCalled
         /\ \E s \in sessions : s.upload_id = upload_id
         /\ \A i \in 1..Len(calls) : calls[i].op # "abort_multipart_upload"

\* The run has ended on a failed part while another part of the session had
\* been stored: the session is left open with a part in it.
C4_Witness ==
    /\ pc = "panicked"
    /\ PartFailed
    /\ ~CompleteCalled
    /\ \E p \in parts : p.upload_id = upload_id
    /\ \E s \in sessions : s.upload_id = upload_id

\* ceil(n / c)
CeilDiv(n, c) == (n + c - 1) \div c

RECURSIVE SumLen(_)
SumLen(ss) == IF ss = << >> THEN 0 ELSE Len(Head(ss)) + SumLen(Tail(ss))

\* The payloads of the parts dispatched in the current session, in cut order.
PartBodies == [i \in 1..Len(UploadTasks) |-> UploadTasks[i].body]

\* The stream of the current chunked transfer is exhausted and flushed.
AllDispatched == pc \in {"join", "complete_multipart_upload"}

\* C5, as claimed: a chunked transfer of N bytes dispatches ceil(N / C) parts,
\* the last of N mod C bytes, or all of C bytes when C divides N, however the
\* stream is delivered.
C5_PartCountAsClaimed ==
    AllDispatched =>
      LET N == Len(SourceBytes)
          k == Len(PartBodies)
      IN /\ k = CeilDiv(N, CHUNK_SIZE)
         /\ Len(PartBodies[k]) =
              IF N % CHUNK_SIZE = 0 THEN CHUNK_SIZE ELSE N % CHUNK_SIZE
         /\ N % CHUNK_SIZE = 0 => \A i \in 1..k : Len(PartBodies[i]) = CHUNK_SIZE

\* C5, amended: the parts dispatched number at least one and at most
\* ceil(N / C), their sizes add up to N, and every part but the last has at
\* least C bytes; when no part is larger than C (the reads' boundaries fell on
\* every multiple of C) there are exactly ceil(N / C) parts, all of C bytes but
\* the last, which has N mod C bytes, or C when C divides N.
C5_PartCount ==
    AllDispatched =>
      LET N == Len(SourceBytes)
          k == Len(PartBodies)
      IN /\ k >= 1
         /\ k <= CeilDiv(N, CHUNK_SIZE)
         /\ SumLen(PartBodies) = N
         /\ \A i \in 1..(k - 1) : Len(PartBodies[i]) >= CHUNK_SIZE
         /\ (\A i \in 1..k : Len(PartBodies[i]) <= CHUNK_SIZE) =>
              /\ k = CeilDiv(N, CHUNK_SIZE)
              /\ \A i \in 1..(k - 1) : Len(PartBodies[i]) = CHUNK_SIZE
              /\ Len(PartBodies[k]) =
                   IF N % CHUNK_SIZE = 0 THEN CHUNK_SIZE ELSE N % CHUNK_SIZE

\* The object of two chunks and a byte went out as two parts, the first larger
\* than the chunk size.
C5_Witness ==
    /\ AllDispatched
    /\ Len(SourceBytes) = 2 * CHUNK_SIZE + 1
    /\ Len(PartBodies) = 2
    /\ Len(PartBodies[1]) > CHUNK_SIZE

\* The size the source reported for the object in hand, 0 when it reported none.
Reported == ContentLengthOrZero(object.content_length)

MultipartOps == {"create_multipart_upload", "upload_part", "complete_multipart_upload"}

\* The operations called for the object in hand.
OpsOfObject ==
    {calls[i].op : i \in {j \in 1..Len(calls) :
                            calls[j].b = bi /\ calls[j].key = object_key}}

\* C6: the strategy depends on the reported size alone: below CHUNK_SIZE the
\* object goes out by one put_object and no multipart call, at or above it by
\* the multipart protocol and no put_object.
C6_StrategyBoundary ==
    /\ pc = "put_object" => Reported < CHUNK_SIZE
    /\ pc \in {"create_multipart_upload", "read", "join", "complete_multipart_upload"}
         => Reported >= CHUNK_SIZE
    /\ "put_object" \in OpsOfObject =>
         /\ Reported < CHUNK_SIZE
         /\ OpsOfObject \cap MultipartOps = {}
         /\ Cardinality({j \in 1..Len(calls) :
                           /\ calls[j].b = bi
                           /\ calls[j].key = object_key
                           /\ calls[j].op = "put_object"}) = 1
    /\ OpsOfObject \cap MultipartOps # {} =>
         /\ Reported >= CHUNK_SIZE
         /\ "put_object" \notin OpsOfObject

\* The call of the given operation for a key of a bucket was made.
Called(op, b, key) ==
    \E i \in 1..Len(calls) : calls[i].op = op /\ calls[i].b = b /\ calls[i].key = key

\* All three sizes around the threshold have been routed: CHUNK_SIZE - 1 by
\* put_object, CHUNK_SIZE and CHUNK_SIZE + 1 by the multipart protocol.
C6_Witness ==
    /\ Called("put_object", 1, KeyA)
    /\ ~Called("create_multipart_upload", 1, KeyA)
    /\ Called("complete_multipart_upload", 1, KeyAB)
    /\ ~Called("put_object", 1, KeyAB)
    /\ bi = 2
    /\ object_key = KeyA
    /\ Reported = CHUNK_SIZE + 1
    /\ Called("complete_multipart_upload", 2, KeyA)
    /\ ~Called("put_object", 2, KeyA)

\* The keys of all the pages listed for the bucket the purge is at.
PurgeListed == UNION {pages[i].contents : i \in 1..Len(pages)}

\* The delete_object calls made for a bucket.
DeleteObjectCalls(bucket) ==
    SelectSeq(purge_calls, LAMBDA c : c.op = "delete_object" /\ c.bucket = bucket)

\* delete_bucket was called for the bucket the purge is at.
DeleteBucketCalled ==
    \E i \in 1..Len(purge_calls) :
        purge_calls[i].op = "delete_bucket" /\ purge_calls[i].bucket = purge_bucket_name

\* C7: for a bucket whose pages hold K distinct keys, the purge has issued, by
\* the time it calls delete_bucket, exactly K delete_object calls, one per
\* distinct key, whatever the number of pages and the keys they repeat; none
\* for K = 0; and delete_bucket is the last call made for a bucket.
C7_PurgeExhaustive ==
    /\ \A i, j \in 1..Len(purge_calls) :
         (i < j /\ purge_calls[i].op = "delete_bucket")
           => purge_calls[j].bucket # purge_calls[i].bucket
    /\ LET dels == DeleteObjectCalls(purge_bucket_name)
           keys == {dels[i].key : i \in 1..Len(dels)}
       IN /\ Cardinality(keys) = Len(dels)
          /\ keys \subseteq PurgeListed
          /\ DeleteBucketCalled =>
               /\ keys = PurgeListed
               /\ Len(dels) = Cardinality(PurgeListed)
               /\ PurgeListed = {} => Len(dels) = 0

\* delete_bucket has just been called for bucket "a", whose three keys came in
\* three pages that repeat a key.
C7_Witness ==
    /\ purge_bucket_name = "a"
    /\ purge_calls[Len(purge_calls)].op = "delete_bucket"
    /\ Len(pages) = 3
    /\ Cardinality(PurgeListed) = 3
    /\ \E i, j \in 1..Len(pages) : i # j /\ pages[i].contents \cap pages[j].contents # {}
    /\ Len(DeleteObjectCalls("a")) = 3

\* A create_bucket failure that is neither of the two recognised conflicts.
OtherFailure(res) ==
    /\ res \in CreateErrors
    /\ ~DebugContains(res, "BucketAlreadyExists")
    /\ ~DebugContains(res, "BucketAlreadyOwnedByYou")

\* C8: after a step-1 create_bucket call (the first or the suffixed retry) has
\* failed for another reason than the two conflicts, the run is over: nothing
\* of that bucket is listed or transferred.
C8_CreateFailureFatal ==
    (\E i \in 1..Len(create_res) : OtherFailure(create_res[i])) =>
      \A j \in 1..Len(calls) :
        calls[j].b = bi =>
          calls[j].op \notin {"list_objects_v2", "list_objects", "get_object",
                              "put_object", "create_multipart_upload"}

\* C9: after BucketAlreadyExists on the first create_bucket the name gets the
\* suffix, one more create_bucket follows with the suffixed name before the
\* listing, and every later destination call of the bucket uses the suffixed
\* name; otherwise (Ok, BucketAlreadyOwnedByYou) no retry is made and the name
\* stays; calls on the source always use the original name.
C9_SuffixedName ==
    create_res # << >> =>
      LET bc == BucketCalls(bi)
          original == << bucket_name >>
      IN /\ bc[1].op = "create_bucket" /\ bc[1].bucket = original
         /\ \A j \in 1..Len(bc) : bc[j].acct = "old" => bc[j].bucket = original
         /\ IF DebugContains(create_res[1], "BucketAlreadyExists") /\ env_suffix # Unset
            THEN /\ new_bucket_name = << bucket_name, env_suffix >>
                 /\ Len(create_res) <= 2
                 /\ pc = "retry_create" <=> Len(create_res) = 1
                 /\ Len(bc) >= 2 => /\ bc[2].op = "create_bucket"
                                    /\ Len(create_res) = 2
                 /\ Len(bc) >= 3 => bc[3].op = "list_objects_v2"
                 /\ \A j \in 2..Len(bc) :
                      bc[j].acct = "new" => bc[j].bucket = << bucket_name, env_suffix >>
            ELSE /\ new_bucket_name = original
                 /\ Len(create_res) = 1
                 /\ Len(bc) >= 2 => bc[2].op = "list_objects_v2"
                 /\ (/\ DebugContains(create_res[1], "BucketAlreadyOwnedByYou")
                     /\ pc = "panicked") => Len(bc) >= 2
                 /\ \A j \in 1..Len(bc) : bc[j].acct = "new" => bc[j].bucket = original

\* Bucket "a" was renamed and its first object put under the suffixed name after
\* being read under the original one; bucket "b", already owned, kept its name
\* and its object's session was opened under it.
C9_Witness ==
    /\ \E i \in 1..Len(calls) :
         /\ calls[i].op = "put_object"
         /\ calls[i].b = 1
         /\ calls[i].bucket = << "a", Suffix >>
    /\ \E i \in 1..Len(calls) :
         /\ calls[i].op = "get_object"
         /\ calls[i].b = 1
         /\ calls[i].bucket = << "a" >>
    /\ bi = 2
    /\ create_res = << "BucketAlreadyOwnedByYou" >>
    /\ \E i \in 1..Len(calls) :
         /\ calls[i].op = "create_multipart_upload"
         /\ calls[i].b = 2
         /\ calls[i].bucket = << "b" >>

\* C10: the orchestrator is at one bucket and one object at a time.  Calls are
\* logged in bucket order and, within a bucket, the calls for one key follow one
\* another with no other call in between; when the loop moves on (to the next object
\* or bucket) no part upload is in flight and no session is open, and when it
\* leaves a bucket every pending key of it is at the destination; every part
\* upload in flight belongs to the one session being fed.
C10_OneAtATime ==
    /\ \A i \in 1..(Len(calls) - 1) : calls[i].b <= calls[i + 1].b
    /\ \A i, k \in 1..Len(calls) :
         (/\ i < k
          /\ calls[i].b = calls[k].b
          /\ calls[i].key # NoName
          /\ calls[i].key = calls[k].key) => calls[k - 1].key = calls[k].key
    /\ \A i \in 1..Len(tasks) :
         tasks[i].status = "running" =>
           /\ tasks[i].upload_id = upload_id
           /\ pc \in {"read", "join"}
    /\ pc \notin {"read", "join", "complete_multipart_upload", "panicked"} =>
         sessions = {} /\ tasks = << >>
    /\ (bi >= 1 /\ pc = "for_bucket") =>
         \A k \in KeysOf(src_listing) \ migrated_objects :
             dest[new_bucket_name][k] # None

\* Two part uploads of the second session are in flight while the stream of
\* its object is still being read.
C10_Witness ==
    /\ pc = "read"
    /\ upload_id = 2
    /\ object.body # << >>
    /\ Cardinality({i \in 1..Len(tasks) : tasks[i].status = "running"}) = 2

\* The operations that read an account without changing it.
ReadOnlyOps == {"list_buckets", "list_objects", "get_object"}

\* The operations that remove something from an account.
DeleteOps == {"delete_object", "delete_objects", "delete_bucket"}

\* C11: over a migration run, complete or aborted, only list_buckets,
\* list_objects and get_object are issued against the source account and no
\* delete is issued against either account; no step changes what the source
\* account holds, and no step takes away an object the destination holds.
C11_StrictlyAdditive ==
    /\ [](\A i \in 1..Len(calls) :
            /\ calls[i].acct = "old" => calls[i].op \in ReadOnlyOps
            /\ calls[i].op \notin DeleteOps)
    /\ [][/\ old_objects' = old_objects
          /\ \A n \in DestNames : \A k \in Keys :
               dest[n][k] # None => dest'[n][k] # None]_vars

\* A complete run: bucket "a" kept the object it held before the run and
\* gained the two others, all three fetched or listed from the source.
C11_Witness ==
    /\ pc = "done"
    /\ dest[<< "a" >>][KeyAB] = Some(Preexisting)
    /\ dest[<< "a" >>][KeyA] = Some(Content(CHUNK_SIZE - 1))
    /\ dest[<< "a" >>][KeyC] = Some(Content(2 * CHUNK_SIZE + 1))
    /\ \E i \in 1..Len(calls) : calls[i].acct = "old" /\ calls[i].op = "get_object"
    /\ \E i \in 1..Len(calls) : calls[i].acct = "new" /\ calls[i].op = "put_object"

\* The state is of a run started after an earlier one; what that one left.
SecondRun == earlier # None
Before == Unwrap(earlier)

\* The keys a destination bucket showed when the second run was started.
VisibleBefore(name) == {k \in Keys : Before.dest[name][k] # None}

\* The destination name the i-th source bucket's objects go to.
NameOf(i) ==
    IF ownership[SourceBuckets[i]] = "foreign"
    THEN << SourceBuckets[i], env_suffix >>
    ELSE << SourceBuckets[i] >>

\* The source objects, as pairs of destination name and key.
SourcePairs ==
    UNION {{<< NameOf(i), k >> : k \in KeysOf(SourceObjects(SourceBuckets[i]))} :
             i \in 1..Len(SourceBuckets)}

\* The objects the run has fetched from the source, as such pairs.
FetchedPairs ==
    {<< NameOf(calls[i].b), calls[i].key >> :
        i \in {j \in 1..Len(calls) : calls[j].op = "get_object"}}

\* C12: a run started after an earlier run, the source unchanged, diffs against
\* what that run left: it fetches no object that was visible at the destination
\* when it started, so none the earlier run transferred; when it is through
\* with a bucket it has fetched every source object of it that was not visible,
\* so every one the earlier run did not finish; run to its end it has fetched
\* exactly the source objects that were not visible and all are there; after an
\* earlier run that ended without a failure it fetches and uploads nothing.
C12_Resume ==
    SecondRun =>
      /\ \A p \in FetchedPairs :
           /\ p[2] \notin VisibleBefore(p[1])
           /\ p \notin Before.transferred
      /\ Listed => migrated_objects = VisibleBefore(new_bucket_name)
      /\ (ObjectsDone \/ (bi >= 1 /\ pc = "for_bucket")) =>
           Fetched(bi) = KeysOf(SourceObjects(bucket_name)) \ VisibleBefore(new_bucket_name)
      /\ pc = "done" =>
           /\ FetchedPairs = {p \in SourcePairs : p[2] \notin VisibleBefore(p[1])}
           /\ \A p \in SourcePairs : dest[p[1]][p[2]] # None
      /\ Before.outcome = "done" =>
           \A i \in 1..Len(calls) :
               calls[i].op \notin {"get_object", "put_object", "create_multipart_upload"}

\* The earlier run put the first object of bucket "a" under the suffixed name
\* and was aborted in the chunked transfer of the second, leaving its session
\* open; the second run has ended, having fetched that second object and the
\* object of bucket "b" and not the first.
C12_Witness ==
    /\ SecondRun
    /\ Before.outcome = "panicked"
    /\ Before.transferred = {<< << "a", Suffix >>, KeyA >>}
    /\ \E s \in sessions : s.bucket = << "a", Suffix >> /\ s.key = KeyAB
    /\ pc = "done"
    /\ FetchedPairs = {<< << "a", Suffix >>, KeyAB >>, << << "b" >>, KeyA >>}

\* The second run after an earlier run that ended without a failure has ended.
C12_WitnessAfterSuccess ==
    /\ SecondRun
    /\ Before.outcome = "done"
    /\ pc = "done"
    /\ calls # << >>

\* C13, as claimed: once a part upload has failed, no further gateway
\* operation is started.
C13_FailFast == [][PartFailed => calls' = calls]_vars

\* A get_object, put_object or complete_multipart_upload call that failed is
\* the last call of the run, and the run has ended.
FailedCallEndsRun ==
    \A i \in 1..Len(calls) :
        /\ (/\ calls[i].op \in {"put_object", "complete_multipart_upload"}
            /\ dest[calls[i].bucket][calls[i].key] = None)
              => (pc = "panicked" /\ i = Len(calls))
        /\ calls[i].op = "get_object" =>
              IF i = Len(calls)
              THEN pc \in {"put_object", "create_multipart_upload", "panicked"}
              ELSE /\ calls[i + 1].op \in {"put_object", "create_multipart_upload"}
                   /\ calls[i + 1].key = calls[i].key
                   /\ calls[i + 1].b = calls[i].b

\* After a failed part upload the run stays with the object: the only calls
\* started are further upload_part calls of it, and the run goes from the read
\* loop to Join and from Join to its end.
AfterPartFailure ==
    /\ bi' = bi
    /\ object_key' = object_key
    /\ pc' \in {"read", "join", "panicked"}
    /\ pc = "join" => pc' \in {"join", "panicked"}
    /\ \/ calls' = calls
       \/ /\ Len(calls') = Len(calls) + 1
          /\ SubSeq(calls', 1, Len(calls)) = calls
          /\ calls'[Len(calls')].op = "upload_part"
          /\ calls'[Len(calls')].key = object_key
          /\ calls'[Len(calls')].b = bi

\* C13, amended: a failed get_object, put_object or complete_multipart_upload
\* ends the run at that call; a failed part upload ends it at Join, and until
\* then only further parts of the same object are dispatched; a run that has
\* ended starts nothing, a session with a failed part is never completed, and
\* no object at the destination is taken back or changed.
C13_FailureEndsRun ==
    /\ [](/\ FailedCallEndsRun
          /\ (PartFailed /\ pc = "join" /\ AllJoined(UploadTasks)) => ENABLED Join
          /\ pc = "panicked" => \A i \in 1..Len(tasks) : tasks[i].status # "running")
    /\ [][/\ pc # "panicked"
          /\ PartFailed => AfterPartFailure
          /\ \A n \in DestNames : \A k \in Keys :
               dest[n][k] # None => dest'[n][k] = dest[n][k]]_vars

\* The run has ended at Join on the failed first part of the three-part object
\* after all three parts had been dispatched; the two objects transferred
\* before it are still at the destination.
C13_Witness ==
    /\ pc = "panicked"
    /\ object_key = KeyC
    /\ Len(upload_tasks) = 3
    /\ ~UploadTasks[1].ok
    /\ finish_order[1] = 1
    /\ dest[new_bucket_name][KeyA] = Some(Content(CHUNK_SIZE - 1))
    /\ dest[new_bucket_name][KeyAB] = Some(Content(CHUNK_SIZE))

\* The chunked transfer of the object in hand is under way.
InChunkedTransfer ==
    pc \in {"create_multipart_upload", "read", "join", "complete_multipart_upload"}

\* C14: the key of a chunked transfer is not an object of the destination
\* bucket while the transfer is under way, nor while its session is open, the
\* sessions of failed transfers included; a pending key that is an object of
\* the bucket got there by the put_object or the complete_multipart_upload
\* called for it, and one for which a session was opened by the latter.
C14_VisibleOnlyByComplete ==
    /\ InChunkedTransfer => dest[new_bucket_name][object_key] = None
    /\ \A s \in sessions : dest[s.bucket][s.key] = None
    /\ Listed =>
         \A k \in KeysOf(src_listing) \ migrated_objects :
             dest[new_bucket_name][k] # None =>
               /\ Called("put_object", bi, k) \/ Called("complete_multipart_upload", bi, k)
               /\ Called("create_multipart_upload", bi, k)
                    => Called("complete_multipart_upload", bi, k)

\* A Failed terminal state: all three parts of the object are stored in its
\* session, complete_multipart_upload was called and failed, and the key is
\* not an object of the bucket.
C14_Witness ==
    /\ pc = "panicked"
    /\ calls[Len(calls)].op = "complete_multipart_upload"
    /\ object_key = KeyC
    /\ Cardinality({p \in parts : p.upload_id = upload_id}) = 3
    /\ \E s \in sessions : s.upload_id = upload_id /\ s.key = KeyC
    /\ dest[new_bucket_name][KeyC] = None

\* The upload_part calls started for the object in hand, in order.
PartCalls ==
    SelectSeq(calls, LAMBDA c : c.op = "upload_part" /\ c.b = bi /\ c.key = object_key)

\* The source offset of the first byte of the j-th part cut.
OffsetOf(j) == 1 + SumLen(SubSeq(PartBodies, 1, j - 1))

\* C15: in a chunked transfer the j-th part cut, the final flushed one
\* included, is dispatched with part number j: the j-th task spawned and the
\* j-th upload_part call carry j, and the task's payload is the stretch of the
\* source that begins where the payloads of parts 1..j-1 end; this holds
\* whichever of the uploads have finished and in whatever order.
C15_NumbersInCutOrder ==
    pc \in {"read", "join", "complete_multipart_upload"} =>
      /\ Len(upload_tasks) = part_number
      /\ Len(PartCalls) = part_number
      /\ \A j \in 1..Len(upload_tasks) :
           /\ UploadTasks[j].part_number = j
           /\ PartCalls[j].n = j
           /\ UploadTasks[j].body =
                SubSeq(SourceBytes, OffsetOf(j), OffsetOf(j) + Len(UploadTasks[j].body) - 1)

\* The three parts of an object are dispatched; the third upload finished
\* first, then the second, and the first is still in flight.
C15_Witness ==
    /\ pc = "join"
    /\ Len(upload_tasks) = 3
    /\ finish_order = << 3, 2 >>
    /\ UploadTasks[1].status = "running"
    /\ UploadTasks[3].part_number = 3
    /\ UploadTasks[3].body = << 2 * CHUNK_SIZE + 1 >>

\* A step of the coordinator: any step but the finishing of a part upload.
CoordinatorStep ==
    \/ ListBuckets
    \/ ForBucket
    \/ CreateBucket
    \/ CreateBucketRetry
    \/ ListDest
    \/ ListSource
    \/ CreateBucketConstrained
    \/ ForObject
    \/ GetObject
    \/ SinglepartUpload
    \/ CreateMultipartUpload
    \/ ReadChunk
    \/ ReadEnd
    \/ ReadFail
    \/ Join
    \/ CompleteMultipartUpload

\* The most bytes the next read can deliver.
NextRead == IF Len(object.body) < MaxRead THEN Len(object.body) ELSE MaxRead

\* C16: the read loop does not wait for a part upload.  Whatever uploads are
\* in flight, it can read on while the stream has bytes, dispatch the next part
\* when the buffer and one read reach the chunk size, and flush and leave when
\* the stream is exhausted; the coordinator can take its step everywhere but
\* at Join, where it can go on exactly when every dispatched upload has
\* finished.
C16_ReadNeverWaits ==
    /\ pc \notin {"join", "done", "panicked"} => ENABLED CoordinatorStep
    /\ pc = "join" => (ENABLED Join <=> AllJoined(UploadTasks))
    /\ (pc = "read" /\ object.body # << >>) =>
         ENABLED (ReadChunk /\ object'.body # object.body)
    /\ (pc = "read" /\ Len(part) + NextRead >= CHUNK_SIZE) =>
         ENABLED (ReadChunk /\ part_number' = part_number + 1)
    /\ (pc = "read" /\ object.body = << >>) => ENABLED ReadEnd

\* All three parts of an object have been dispatched and the stream is
\* exhausted while none of the three uploads has finished.
C16_Witness ==
    /\ pc = "join"
    /\ Len(upload_tasks) = 3
    /\ finish_order = << >>
    /\ \A j \in 1..3 : UploadTasks[j].status = "running"

\* The purge is listing the bucket it is at.
Paging == purge_pc \in {"list_objects", "list_objects_marker"}

\* The list_objects calls made for the bucket the purge is at.
ListCalls ==
    SelectSeq(purge_calls,
              LAMBDA c : c.op = "list_objects" /\ c.bucket = purge_bucket_name)

\* The marker rule, the accumulation and the exit of the paging loop.
PagingAsCoded ==
    /\ pages # << >> => pages[1].marker = None
    /\ \A i \in 2..Len(pages) :
         /\ pages[i - 1].next_marker # None
         /\ pages[i].marker = pages[i - 1].next_marker
    /\ purge_objects = PurgeListed
    /\ next_marker = IF pages = << >> THEN None ELSE pages[Len(pages)].next_marker
    /\ purge_pc = "list_objects_marker" =>
         pages # << >> /\ pages[Len(pages)].next_marker # None
    /\ purge_pc = "for_object" =>
         /\ pages # << >> /\ pages[Len(pages)].next_marker = None
         /\ Len(ListCalls) = Len(pages)
         /\ to_delete \subseteq PurgeListed
    /\ Paging => \A i \in 1..Len(pages) : pages[i].next_marker # None

\* C17: for each bucket the first listing call is sent no marker and every
\* later one the marker the call before it returned; the set holds the keys of
\* all pages returned so far; the purge is in the paging loop exactly while the
\* last page came with a marker, and leaves it with the page that comes
\* without one, the set being the union of the keys of all pages; and, the
\* account returning such a page in the end, the paging of a bucket ends.
C17_Paging ==
    /\ []PagingAsCoded
    /\ Paging ~> ~Paging

\* The paging of bucket "a" has ended after three pages that came with two
\* different markers and repeat a key; the set holds the three keys.
C17_Witness ==
    /\ purge_bucket_name = "a"
    /\ purge_pc = "for_object"
    /\ Len(pages) = 3
    /\ pages[1].next_marker # pages[2].next_marker
    /\ pages[3].marker = pages[2].next_marker
    /\ pages[1].contents \cap pages[3].contents # {}
    /\ purge_objects = Keys
    /\ to_delete = Keys

\* C18: in a chunked transfer, however the stream is delivered, no part
\* dispatched is empty and every one is smaller than the chunk size plus the
\* largest read; every part is of at least the chunk size except the one
\* flushed when the stream has ended, which is the last; and the buffer left
\* after a read is below the chunk size.
C18_PartSizes ==
    pc \in {"read", "join", "complete_multipart_upload"} =>
      LET k == Len(PartBodies)
      IN /\ \A j \in 1..k :
              /\ Len(PartBodies[j]) >= 1
              /\ Len(PartBodies[j]) < CHUNK_SIZE + MaxRead
              /\ Len(PartBodies[j]) < CHUNK_SIZE => (j = k /\ AllDispatched)
         /\ \A j \in 1..(k - 1) : Len(PartBodies[j]) >= CHUNK_SIZE
         /\ pc = "read" => Len(part) < CHUNK_SIZE
         /\ AllDispatched => part = << >>

\* The object of two chunks and a byte went out as two parts of the chunk
\* size and a flushed last part of one byte.
C18_Witness ==
    /\ pc = "join"
    /\ object_key = KeyC
    /\ Len(PartBodies) = 3
    /\ Len(PartBodies[1]) = CHUNK_SIZE
    /\ Len(PartBodies[2]) = CHUNK_SIZE
    /\ Len(PartBodies[3]) = 1

\* The calls made for the object in hand, in order.
ObjectCalls == SelectSeq(calls, LAMBDA c : c.b = bi /\ c.key = object_key)

\* How many calls of one of the given operations were made for a key of the
\* bucket the run is at.
Count(ops, key) ==
    Cardinality({j \in 1..Len(calls) :
                   calls[j].b = bi /\ calls[j].key = key /\ calls[j].op \in ops})

\* C19: the calls made for an object are one get_object, then either one
\* put_object and nothing more, or one create_multipart_upload followed by
\* upload_part calls of pairwise different part numbers and by at most one
\* complete_multipart_upload, which is the last; one session is opened for it;
\* and when the object loop of a bucket has ended every pending key has had
\* exactly one get_object and exactly one put_object or session.
C19_ExactlyOnce ==
    /\ object_key # NoName =>
         LET oc == ObjectCalls
         IN /\ oc # << >> => oc[1].op = "get_object"
            /\ Len(oc) >= 2 => oc[2].op \in {"put_object", "create_multipart_upload"}
            /\ (Len(oc) >= 2 /\ oc[2].op = "put_object") => Len(oc) = 2
            /\ \A i \in 3..Len(oc) :
                 /\ oc[i].op \in {"upload_part", "complete_multipart_upload"}
                 /\ oc[i].op = "complete_multipart_upload" => i = Len(oc)
            /\ \A i, j \in 3..Len(oc) : i < j => oc[i].n # oc[j].n
            /\ Cardinality({s \in sessions :
                              s.bucket = new_bucket_name /\ s.key = object_key}) <= 1
    /\ Cardinality(sessions) <= next_upload_id - 1
    /\ ObjectsDone =>
         \A k \in KeysOf(src_listing) \ migrated_objects :
             /\ Count({"get_object"}, k) = 1
             /\ Count({"put_object", "create_multipart_upload"}, k) = 1
             /\ Count({"complete_multipart_upload"}, k) <= 1

\* The object loop of bucket "a" has ended with nothing at the destination
\* before: three objects fetched once each, one put, two sessions, four parts
\* and two completions.
C19_Witness ==
    /\ ObjectsDone
    /\ bi = 1
    /\ migrated_objects = {}
    /\ Count({"put_object"}, KeyA) = 1
    /\ Count({"create_multipart_upload"}, KeyAB) = 1
    /\ Count({"upload_part"}, KeyAB) = 1
    /\ Count({"upload_part"}, KeyC) = 3
    /\ Count({"complete_multipart_upload"}, KeyC) = 1

\* The calls of the purge that name the given bucket.
PurgeCallsOn(bucket) == SelectSeq(purge_calls, LAMBDA c : c.bucket = bucket)

\* The buckets the purge has left behind it or is at.
PurgeReached == {purge_calls[i].bucket : i \in 1..Len(purge_calls)} \ {""}

\* C20: when delete_bucket is called for a bucket, every delete_object call
\* made for it has succeeded and no key listed is left to delete; a bucket the
\* purge has gone past is deleted and stays so; when a list_objects or a
\* delete_object call has failed the run has ended, that call being the last,
\* with the bucket not deleted, delete_bucket not called for it and no call
\* made on any later bucket, which holds what it held.
C20_DeleteBucketLast ==
    /\ \A i \in 1..Len(purge_calls) :
         purge_calls[i].op = "delete_bucket" =>
           /\ \A j \in 1..(i - 1) :
                (/\ purge_calls[j].op = "delete_object"
                 /\ purge_calls[j].bucket = purge_calls[i].bucket)
                  => purge_calls[j].key \notin OldKeys(purge_calls[i].bucket)
           /\ purge_calls[i].bucket = purge_bucket_name => to_delete = {}
           /\ i < Len(purge_calls) => old_objects[purge_calls[i].bucket] = None
           /\ (i = Len(purge_calls) /\ purge_pc # "panicked")
                => old_objects[purge_calls[i].bucket] = None
    /\ \A b \in PurgeReached : b # purge_bucket_name => old_objects[b] = None
    /\ purge_pc = "panicked" => ~ENABLED PurgeNext
    /\ (/\ purge_pc = "panicked"
        /\ purge_calls[Len(purge_calls)].op \in {"list_objects", "delete_object"}) =>
         /\ old_objects[purge_bucket_name] # None
         /\ ~DeleteBucketCalled
         /\ \A i \in 1..Len(purge_buckets) :
              /\ PurgeCallsOn(purge_buckets[i]) = << >>
              /\ old_objects[purge_buckets[i]] =
                   Some(KeysOf(SourceObjects(purge_buckets[i])))
    /\ \A i \in 1..(Len(purge_calls) - 1) :
         (/\ purge_calls[i].op = "delete_object"
          /\ purge_calls[i].key \in OldKeys(purge_calls[i].bucket)) => FALSE

\* Bucket "a" was purged and deleted; the delete_object call for the key of
\* bucket "b" failed: the run has ended with "b" and its key in place and with
\* no call made on "c".
C20_Witness ==
    /\ purge_pc = "panicked"
    /\ purge_bucket_name = "b"
    /\ purge_calls[Len(purge_calls)].op = "delete_object"
    /\ old_objects["a"] = None
    /\ old_objects["b"] = Some({KeyA})
    /\ purge_buckets = << "c" >>
    /\ PurgeCallsOn("c") = << >>

====
